---------------------------- MODULE Spec2Model ----------------------------
(***************************************************************************)
(* Model of netlify/functions/submit-form.js: the multi-form submission    *)
(* handler (exports.handler) with its registry FORM_CONFIGS, the field     *)
(* validators, the anti-spam checks, the sanitizer and the response        *)
(* helpers.                                                                *)
(*                                                                         *)
(* Text.  A JavaScript string is a sequence of one-character strings.  The *)
(* program's own literals inside messages ("Missing required field: ",     *)
(* "; ", ...) are kept as single elements of such a sequence; everything   *)
(* that comes from the request is spelled one character per element, so    *)
(* trim, the regular expressions, startsWith and the escaping work on      *)
(* characters.                                                             *)
(*                                                                         *)
(* Values.  A JSON value (or undefined) is a record with the same fields   *)
(* for every type: t is the type tag, b the boolean, n the integer part of *)
(* a number, half whether the number has the fraction .5, s the text of a  *)
(* string (for an array: the text of its only element).                    *)
(***************************************************************************)
EXTENDS Integers, Sequences, FiniteSets, TLC

VARIABLES
    pc,               \* position of the invocation in exports.handler
    event,            \* the request: httpMethod and body
    now,              \* the instant Date.now() / new Date() observe
    onSuccess,        \* per form, what its onSuccess hook may do when awaited
    data,             \* JSON.parse(event.body)
    form_id,          \* const { form_id } = data
    formConfig,       \* FORM_CONFIGS[form_id]
    validationErrors, \* result of validateRequiredFields
    sanitizedData,    \* the object handed to onSuccess
    invoked,          \* the onSuccess calls made so far: <<[form, arg, outcome]>>
    response,         \* what the handler returned
    value,            \* argument of sanitizeInput   (SpecSanitize only)
    escaped           \* sanitizeInput(value)        (SpecSanitize only)

vars == <<pc, event, now, onSuccess, data, form_id, formConfig,
          validationErrors, sanitizedData, invoked, response, value, escaped>>

---------------------------------------------------------------------------
(* JSON values *)

Undef == [t |-> "undefined", b |-> FALSE, n |-> 0, half |-> FALSE, s |-> <<>>]
Null == [t |-> "null", b |-> FALSE, n |-> 0, half |-> FALSE, s |-> <<>>]
Bool(x) == [t |-> "boolean", b |-> x, n |-> 0, half |-> FALSE, s |-> <<>>]
Num(x) == [t |-> "number", b |-> FALSE, n |-> x, half |-> FALSE, s |-> <<>>]
NumHalf(x) == [t |-> "number", b |-> FALSE, n |-> x, half |-> TRUE, s |-> <<>>]
Str(x) == [t |-> "string", b |-> FALSE, n |-> 0, half |-> FALSE, s |-> x]
Arr(x) == [t |-> "array", b |-> FALSE, n |-> 0, half |-> FALSE, s |-> x]
Obj == [t |-> "object", b |-> FALSE, n |-> 0, half |-> FALSE, s |-> <<>>]

\* JavaScript's ToBoolean
Truthy(v) ==
    CASE v.t = "undefined" -> FALSE
      [] v.t = "null" -> FALSE
      [] v.t = "boolean" -> v.b
      [] v.t = "number" -> v.n # 0 \/ v.half
      [] v.t = "string" -> Len(v.s) > 0
      [] OTHER -> TRUE

Whitespace == {" ", "\t"}
Digits == <<"0", "1", "2", "3", "4", "5", "6", "7", "8", "9">>
DigitSet == {Digits[i] : i \in 1..10}

RECURSIVE NatToText(_)
NatToText(x) ==
    IF x < 10 THEN <<Digits[x + 1]>>
    ELSE NatToText(x \div 10) \o <<Digits[(x % 10) + 1]>>

\* JavaScript's ToString (here JSToString), as used by RegExp.test, property keys, parseInt
\* and template literals
JSToString(v) ==
    CASE v.t = "undefined" -> <<"u", "n", "d", "e", "f", "i", "n", "e", "d">>
      [] v.t = "null" -> <<"n", "u", "l", "l">>
      [] v.t = "boolean" ->
            IF v.b THEN <<"t", "r", "u", "e">> ELSE <<"f", "a", "l", "s", "e">>
      [] v.t = "number" ->
            (IF v.n < 0 THEN <<"-">> \o NatToText(0 - v.n) ELSE NatToText(v.n))
            \o (IF v.half THEN <<".", "5">> ELSE <<>>)
      [] v.t = "string" -> v.s
      [] v.t = "array" -> v.s
      [] OTHER -> <<"[", "o", "b", "j", "e", "c", "t", " ",
                    "O", "b", "j", "e", "c", "t", "]">>

\* String.prototype.trim
RECURSIVE TrimStart(_)
TrimStart(s) ==
    IF s # <<>> /\ Head(s) \in Whitespace THEN TrimStart(Tail(s)) ELSE s

RECURSIVE TrimEnd(_)
TrimEnd(s) ==
    IF s # <<>> /\ s[Len(s)] \in Whitespace
    THEN TrimEnd(SubSeq(s, 1, Len(s) - 1)) ELSE s

trim(s) == TrimEnd(TrimStart(s))

\* String.prototype.replace(/c/g, by): every occurrence of the character c
RECURSIVE ReplaceAll(_, _, _)
ReplaceAll(s, c, by) ==
    IF s = <<>> THEN <<>>
    ELSE (IF Head(s) = c THEN by ELSE <<Head(s)>>) \o ReplaceAll(Tail(s), c, by)

---------------------------------------------------------------------------
(* SECURITY HELPERS: sanitizeInput *)

sanitizeInput_EscapesAmpersand(v) ==
    IF v.t # "string" THEN v
    ELSE Str(ReplaceAll(ReplaceAll(ReplaceAll(ReplaceAll(ReplaceAll(v.s,
             "&", <<"&", "a", "m", "p", ";">>),
             "<", <<"&", "l", "t", ";">>),
             ">", <<"&", "g", "t", ";">>),
             "\"", <<"&", "q", "u", "o", "t", ";">>),
             "'", <<"&", "#", "x", "2", "7", ";">>))

sanitizeInput(v) ==
    IF v.t # "string" THEN v
    ELSE Str(ReplaceAll(ReplaceAll(ReplaceAll(ReplaceAll(v.s,
             "<", <<"&", "l", "t", ";">>),
             ">", <<"&", "g", "t", ";">>),
             "\"", <<"&", "q", "u", "o", "t", ";">>),
             "'", <<"&", "#", "x", "2", "7", ";">>))

---------------------------------------------------------------------------
(* Property names and form identifiers, spelled out *)

K_form_id == <<"f", "o", "r", "m", "_", "i", "d">>
K_honey == <<"_", "h", "o", "n", "e", "y">>
K_timestamp == <<"_", "t", "i", "m", "e", "s", "t", "a", "m", "p">>
K_name == <<"n", "a", "m", "e">>
K_email == <<"e", "m", "a", "i", "l">>
K_message == <<"m", "e", "s", "s", "a", "g", "e">>
K_phone == <<"p", "h", "o", "n", "e">>
K_service_type == <<"s", "e", "r", "v", "i", "c", "e", "_", "t", "y", "p", "e">>
K_budget == <<"b", "u", "d", "g", "e", "t">>
K_company == <<"c", "o", "m", "p", "a", "n", "y">>
K_submitted_at == <<"s", "u", "b", "m", "i", "t", "t", "e", "d", "_", "a", "t">>

T_contact == <<"c", "o", "n", "t", "a", "c", "t">>
T_newsletter == <<"n", "e", "w", "s", "l", "e", "t", "t", "e", "r">>
T_quote == <<"q", "u", "o", "t", "e">>
T_callback == <<"c", "a", "l", "l", "b", "a", "c", "k">>

\* The property names a submission of the model may carry, in the order
\* Object.entries visits them
KeyOrder == <<K_form_id, K_honey, K_timestamp, K_name, K_email, K_message,
              K_phone, K_service_type, K_budget, K_company, K_submitted_at>>
Keys == {KeyOrder[i] : i \in 1..Len(KeyOrder)}

---------------------------------------------------------------------------
(* FORM CONFIGURATIONS *)

\* Object.keys(FORM_CONFIGS), in declaration order
FormIds == <<T_contact, T_newsletter, T_quote, T_callback>>
FormIdSet == {FormIds[i] : i \in 1..Len(FormIds)}

\* optionalFields is declared by every entry and read nowhere; onSuccess is
\* the variable onSuccess (what the hook does is the deployment's choice)
FORM_CONFIGS ==
    [f \in FormIdSet |->
        CASE f = T_contact ->
                [requiredFields |-> <<K_name, K_email, K_message>>]
          [] f = T_newsletter ->
                [requiredFields |-> <<K_email>>]
          [] f = T_quote ->
                [requiredFields |-> <<K_name, K_email, K_service_type, K_budget>>]
          [] OTHER ->
                [requiredFields |-> <<K_name, K_phone>>]]

\* FORM_CONFIGS is an object literal, so reading FORM_CONFIGS[key] also finds
\* what it inherits from Object.prototype.  These are some of those names;
\* every one of them reads as a truthy value (a function, or the prototype
\* itself) that has neither requiredFields nor onSuccess.
T_constructor == <<"c", "o", "n", "s", "t", "r", "u", "c", "t", "o", "r">>
T_toString == <<"t", "o", "S", "t", "r", "i", "n", "g">>
T_valueOf == <<"v", "a", "l", "u", "e", "O", "f">>
T_proto == <<"_", "_", "p", "r", "o", "t", "o", "_", "_">>
ObjectPrototypeKeys == {T_constructor, T_toString, T_valueOf, T_proto}

NoConfig == [kind |-> "undefined", id |-> <<>>]

\* FORM_CONFIGS[form_id]: the property key is ToString(form_id); the result
\* is one of the four schemas ("own"), an inherited member ("inherited") or
\* undefined
Lookup(fid) ==
    LET key == JSToString(fid) IN
    IF key \in FormIdSet THEN [kind |-> "own", id |-> key]
    ELSE IF key \in ObjectPrototypeKeys THEN [kind |-> "inherited", id |-> key]
    ELSE NoConfig

---------------------------------------------------------------------------
(* VALIDATION HELPERS *)

\* /^[^\s@]+@[^\s@]+\.[^\s@]+$/.test(value)
emailRegex(s) ==
    \E i \in 1..Len(s) : \E j \in 1..Len(s) :
        /\ s[i] = "@"
        /\ s[j] = "."
        /\ 1 < i
        /\ i + 1 < j
        /\ j < Len(s)
        /\ \A k \in 1..Len(s) : s[k] \notin Whitespace /\ (s[k] = "@" => k = i)

phoneRegex_TenToTwenty(s) ==
    /\ Len(s) >= 10
    /\ Len(s) <= 20
    /\ \A k \in 1..Len(s) : s[k] \in DigitSet \cup Whitespace \cup {"-", "+", "(", ")"}

\* /^[\d\s\-+()]{7,20}$/.test(value)
phoneRegex(s) ==
    /\ Len(s) >= 7
    /\ Len(s) <= 20
    /\ \A k \in 1..Len(s) : s[k] \in DigitSet \cup Whitespace \cup {"-", "+", "(", ")"}

NoError == <<>>

\* validators.email / validators.phone: null (NoError) or the reason
validators_email(v) ==
    IF emailRegex(JSToString(v)) THEN NoError ELSE <<"Invalid email format">>

validators_phone(v) ==
    IF ~Truthy(v) THEN NoError
    ELSE IF phoneRegex(JSToString(v)) THEN NoError ELSE <<"Invalid phone format">>

validateField(field, v) ==
    IF field = K_email THEN validators_email(v)
    ELSE IF field = K_phone THEN validators_phone(v)
    ELSE NoError

\* !data[field] || (typeof data[field] === 'string' && !data[field].trim())
IsMissing(v) ==
    ~Truthy(v) \/ (v.t = "string" /\ trim(v.s) = <<>>)

RECURSIVE validateRequiredFields(_, _)
validateRequiredFields(d, requiredFields) ==
    IF requiredFields = <<>> THEN <<>>
    ELSE
        LET field == Head(requiredFields)
            rest == validateRequiredFields(d, Tail(requiredFields))
        IN  IF IsMissing(d[field])
            THEN <<(<<"Missing required field: ">> \o field)>> \o rest
            ELSE LET validationError == validateField(field, d[field]) IN
                 IF validationError # NoError
                 THEN <<(field \o <<": ">> \o validationError)>> \o rest
                 ELSE rest

\* Array.prototype.join
RECURSIVE join(_, _)
join(parts, sep) ==
    IF parts = <<>> THEN <<>>
    ELSE IF Len(parts) = 1 THEN parts[1]
    ELSE parts[1] \o sep \o join(Tail(parts), sep)

---------------------------------------------------------------------------
(* SECURITY HELPERS *)

\* checkHoneypot: "pass" (true), "bot" (false), or "TypeError" when _honey is
\* truthy and has no trim method (a number, true, an array, an object)
checkHoneypot(d) ==
    LET h == d[K_honey] IN
    IF ~Truthy(h) THEN "pass"
    ELSE IF h.t # "string" THEN "TypeError"
    ELSE IF trim(h.s) # <<>> THEN "bot"
    ELSE "pass"

RECURSIVE DigitPrefix(_)
DigitPrefix(s) ==
    IF s # <<>> /\ Head(s) \in DigitSet THEN <<Head(s)>> \o DigitPrefix(Tail(s))
    ELSE <<>>

DigitValue(c) == CHOOSE i \in 0..9 : Digits[i + 1] = c

RECURSIVE TextToNat(_)
TextToNat(s) ==
    IF s = <<>> THEN 0
    ELSE 10 * TextToNat(SubSeq(s, 1, Len(s) - 1)) + DigitValue(s[Len(s)])

\* parseInt(v, 10): ToString, leading whitespace skipped, an optional sign,
\* then the longest run of decimal digits; NaN when there is none
parseInt(v) ==
    LET s == TrimStart(JSToString(v))
        neg == s # <<>> /\ Head(s) = "-"
        body == IF s # <<>> /\ Head(s) \in {"-", "+"} THEN Tail(s) ELSE s
        ds == DigitPrefix(body)
    IN  IF ds = <<>> THEN [nan |-> TRUE, n |-> 0]
        ELSE [nan |-> FALSE, n |-> IF neg THEN 0 - TextToNat(ds) ELSE TextToNat(ds)]

MinSubmissionMs == 2000

checkTimestamp_NumbersOnly(d, t) ==
    LET ts == d[K_timestamp] IN
    IF Truthy(ts) /\ ts.t = "number"
    THEN LET p == parseInt(ts) IN ~(~p.nan /\ t - p.n < MinSubmissionMs)
    ELSE TRUE

\* checkTimestamp: a comparison with NaN is false
checkTimestamp(d, t) ==
    LET ts == d[K_timestamp] IN
    IF Truthy(ts)
    THEN LET p == parseInt(ts) IN ~(~p.nan /\ t - p.n < MinSubmissionMs)
    ELSE TRUE

\* key.startsWith('_')
startsWithUnderscore(k) == k # <<>> /\ Head(k) = "_"

\* Object.keys(data): the properties the parsed object has
OwnKeys(d) == {k \in Keys : d[k].t # "undefined"}

sanitizeData(d) ==
    [k \in {x \in OwnKeys(d) : ~startsWithUnderscore(x)} |-> sanitizeInput(d[k])]

\* new Date(t).toISOString(): the calendar arithmetic is not modelled, the
\* text carries the digits of the instant
toISOString(t) == NatToText(t) \o <<"Z">>

\* sanitizedData.form_id = form_id; sanitizedData.submitted_at = ...
WithMetadata(sd, fid, t) ==
    [k \in DOMAIN sd \cup {K_form_id, K_submitted_at} |->
        IF k = K_form_id THEN fid
        ELSE IF k = K_submitted_at THEN Str(toISOString(t))
        ELSE sd[k]]

---------------------------------------------------------------------------
(* RESPONSE HELPERS *)

CorsHeaders ==
    [ContentType |-> "application/json",
     AccessControlAllowOrigin |-> "*",
     AccessControlAllowHeaders |-> "Content-Type",
     AccessControlAllowMethods |-> "POST, OPTIONS"]

\* The body is kept as the object JSON.stringify serialises; a member the
\* object does not have is "absent" (success) or the empty text
EmptyBody == [success |-> "absent", message |-> <<>>, error |-> <<>>]

jsonResponse(statusCode, body) ==
    [statusCode |-> statusCode, headers |-> CorsHeaders, body |-> body]

successResponse(message) ==
    jsonResponse(200, [success |-> "true", message |-> message, error |-> <<>>])

errorResponse(error, statusCode) ==
    jsonResponse(statusCode, [success |-> "false", message |-> <<>>, error |-> error])

NoResponse == jsonResponse(0, EmptyBody)

---------------------------------------------------------------------------
(* The requests of the model *)

\* At most this many properties of a submission differ from the minimal valid
\* submission of its form
MaxEdits == 2

\* The instants Date.now() may return
Instants == {5000}

Methods == {"OPTIONS", "GET", "POST"}

\* What an onSuccess hook may do when awaited: resolve with undefined (the
\* hooks of the source, which only log), reject (throw), or resolve with a
\* value that reports an error
HookBehaviours == {"resolves", "rejects", "resolvesWithError"}

T_Al == <<"A", "l">>
T_mail == <<"a", "@", "b", ".", "c", "o">>
T_hi == <<"h", "i">>
T_tel == <<"5", "5", "5", "-", "1", "2", "3", "4">>
T_web == <<"w", "e", "b">>
T_5k == <<"5", "k">>

\* A valid value of each form field
ValidValue(k) ==
    CASE k = K_name -> Str(T_Al)
      [] k = K_email -> Str(T_mail)
      [] k = K_message -> Str(T_hi)
      [] k = K_phone -> Str(T_tel)
      [] k = K_service_type -> Str(T_web)
      [] k = K_budget -> Str(T_5k)
      [] OTHER -> Undef

\* The values form_id takes: absent, empty, the four identifiers, a wrong
\* case, an unknown name, an inherited member's name, a number, an array
FormIdValues ==
    {Undef, Str(<<>>), Str(T_contact), Str(T_newsletter), Str(T_quote),
     Str(T_callback), Str(<<"C", "o", "n", "t", "a", "c", "t">>),
     Str(<<"b", "o", "g", "u", "s">>), Str(T_constructor), Num(5),
     Arr(T_contact)}

\* The values each other property takes (undefined: the property is absent)
Values(k, t) ==
    CASE k = K_honey ->
            {Undef, Str(<<>>), Str(<<" ">>), Str(<<"b", "o", "t">>), Num(1)}
      [] k = K_timestamp ->
            {Undef, Num(0), Num(t - MinSubmissionMs), NumHalf(t - MinSubmissionMs),
             Str(NatToText(t - MinSubmissionMs + 1)), Str(<<"s", "o", "o", "n">>)}
      [] k = K_name ->
            {Undef, Str(T_Al), Str(<<" ">>), Num(0), Str(<<"<", "b", ">">>)}
      [] k = K_email ->
            {Undef, Str(T_mail), Str(<<"a", "@", "b">>),
             Str(<<"o", "'", "x", "@", "b", ".", "c", "o">>)}
      [] k = K_message -> {Undef, Str(T_hi), Str(<<"\"", "&", ">">>)}
      [] k = K_phone -> {Undef, Str(T_tel), Str(<<"5", "5", "5">>)}
      [] k = K_service_type -> {Undef, Str(T_web)}
      [] k = K_budget -> {Undef, Str(T_5k), Num(0)}
      [] k = K_company -> {Undef, Obj}
      [] k = K_submitted_at -> {Undef, Str(<<"t", "h", "e", "n">>)}
      [] OTHER -> {Undef}

InSeq(x, s) == \E i \in 1..Len(s) : s[i] = x

\* The form a submission is built for: the one form_id names, else contact
BaseForm(fid) ==
    IF JSToString(fid) \in FormIdSet THEN JSToString(fid) ELSE T_contact

\* form_id plus exactly the required fields of the form, each valid
MinimalSubmission(fid) ==
    [k \in Keys |->
        IF k = K_form_id THEN fid
        ELSE IF InSeq(k, FORM_CONFIGS[BaseForm(fid)].requiredFields)
        THEN ValidValue(k)
        ELSE Undef]

\* The submissions that agree with base on the properties after the first i
\* of KeyOrder and differ from it in at most edits of the others
RECURSIVE Edited(_, _, _, _)
Edited(base, i, edits, t) ==
    IF i = 1 THEN {base}
    ELSE
        LET k == KeyOrder[i] IN
        Edited(base, i - 1, edits, t)
        \cup (IF edits = 0 THEN {}
              ELSE {[d EXCEPT ![k] = v] :
                       d \in Edited(base, i - 1, edits - 1, t),
                       v \in Values(k, t) \ {base[k]}})

Submissions(t) ==
    UNION {Edited(MinimalSubmission(fid), Len(KeyOrder), MaxEdits, t) :
              fid \in FormIdValues}

NoObject == [k \in Keys |-> Undef]

\* event.body by what JSON.parse makes of it: a SyntaxError ("malformed",
\* which covers an absent body), null, a number/string/boolean/array
\* ("primitive": none of the properties read is defined), or an object
Bodies(t) ==
    {[kind |-> b, obj |-> NoObject] : b \in {"malformed", "null", "primitive"}}
    \cup {[kind |-> "object", obj |-> d] : d \in Submissions(t)}

---------------------------------------------------------------------------
(* MAIN HANDLER: exports.handler, one action per stage *)

NoData == [kind |-> "unset", obj |-> NoObject]

\* No invocation is running
Idle ==
    /\ pc = "idle"
    /\ event = [httpMethod |-> "none", body |-> [kind |-> "malformed", obj |-> NoObject]]
    /\ now = 0
    /\ data = NoData
    /\ form_id = Undef
    /\ formConfig = NoConfig
    /\ validationErrors = <<>>
    /\ sanitizedData = <<>>
    /\ invoked = <<>>
    /\ response = NoResponse

\* The module as loaded: the hooks of the source only log, so they resolve
Init ==
    /\ Idle
    /\ onSuccess = [f \in FormIdSet |-> {"resolves"}]
    /\ value = Undef
    /\ escaped = Undef

\* The platform calls the handler with a request
Receive ==
    /\ pc = "idle"
    /\ \E t \in Instants : \E m \in Methods : \E b \in Bodies(t) :
        /\ now' = t
        /\ event' = [httpMethod |-> m, body |-> b]
    /\ pc' = "MethodCheck"
    /\ UNCHANGED <<onSuccess, data, form_id, formConfig, validationErrors,
                   sanitizedData, invoked, response, value, escaped>>

Return(r) ==
    /\ response' = r
    /\ pc' = "returned"

\* An exception nothing catches: the handler's promise rejects
Throw ==
    /\ pc' = "threw"
    /\ UNCHANGED response

MethodCheck ==
    /\ pc = "MethodCheck"
    /\ IF event.httpMethod = "OPTIONS" THEN Return(jsonResponse(200, EmptyBody))
       ELSE IF event.httpMethod # "POST"
       THEN Return(errorResponse(<<"Method not allowed. Use POST.">>, 405))
       ELSE pc' = "BodyParse" /\ UNCHANGED response
    /\ UNCHANGED <<event, now, onSuccess, data, form_id, formConfig,
                   validationErrors, sanitizedData, invoked, value, escaped>>

BodyParse ==
    /\ pc = "BodyParse"
    /\ IF event.body.kind = "malformed"
       THEN /\ Return(errorResponse(<<"Invalid JSON in request body">>, 400))
            /\ UNCHANGED data
       ELSE /\ data' = event.body
            /\ pc' = "FormResolve"
            /\ UNCHANGED response
    /\ UNCHANGED <<event, now, onSuccess, form_id, formConfig,
                   validationErrors, sanitizedData, invoked, value, escaped>>

\* `Unknown form_id: ${form_id}. Available forms: ${Object.keys(...).join(', ')}`
UnknownFormMessage(fid) ==
    <<"Unknown form_id: ">> \o JSToString(fid) \o <<". Available forms: ">>
    \o join(FormIds, <<", ">>)

FormResolve ==
    /\ pc = "FormResolve"
    /\ IF data.kind = "null"
       THEN Throw /\ UNCHANGED <<form_id, formConfig>>
       ELSE
         LET fid == data.obj[K_form_id] IN
         /\ form_id' = fid
         /\ IF ~Truthy(fid)
            THEN /\ Return(errorResponse(<<"Missing form_id in request body">>, 400))
                 /\ UNCHANGED formConfig
            ELSE /\ formConfig' = Lookup(fid)
                 /\ IF Lookup(fid).kind = "undefined"
                    THEN Return(errorResponse(UnknownFormMessage(fid), 400))
                    ELSE pc' = "AntiSpamHoneypot" /\ UNCHANGED response
    /\ UNCHANGED <<event, now, onSuccess, data, validationErrors,
                   sanitizedData, invoked, value, escaped>>

AntiSpamHoneypot ==
    /\ pc = "AntiSpamHoneypot"
    /\ LET r == checkHoneypot(data.obj) IN
       IF r = "TypeError" THEN Throw
       ELSE IF r = "bot"
       THEN Return(successResponse(<<"Form submitted successfully">>))
       ELSE pc' = "AntiSpamTimestamp" /\ UNCHANGED response
    /\ UNCHANGED <<event, now, onSuccess, data, form_id, formConfig,
                   validationErrors, sanitizedData, invoked, value, escaped>>

AntiSpamTimestamp ==
    /\ pc = "AntiSpamTimestamp"
    /\ IF ~checkTimestamp(data.obj, now)
       THEN Return(errorResponse(<<"Please wait a moment before submitting">>, 400))
       ELSE pc' = "FieldValidate" /\ UNCHANGED response
    /\ UNCHANGED <<event, now, onSuccess, data, form_id, formConfig,
                   validationErrors, sanitizedData, invoked, value, escaped>>

\* formConfig.requiredFields is undefined for an inherited member, and
\* for...of over undefined throws a TypeError
FieldValidate ==
    /\ pc = "FieldValidate"
    /\ IF formConfig.kind # "own"
       THEN Throw /\ UNCHANGED validationErrors
       ELSE
         LET errors == validateRequiredFields(data.obj,
                           FORM_CONFIGS[formConfig.id].requiredFields) IN
         /\ validationErrors' = errors
         /\ IF Len(errors) > 0
            THEN Return(errorResponse(join(errors, <<"; ">>), 400))
            ELSE pc' = "Sanitize" /\ UNCHANGED response
    /\ UNCHANGED <<event, now, onSuccess, data, form_id, formConfig,
                   sanitizedData, invoked, value, escaped>>

Sanitize ==
    /\ pc = "Sanitize"
    /\ sanitizedData' = WithMetadata(sanitizeData(data.obj), form_id, now)
    /\ pc' = "SuccessAction"
    /\ UNCHANGED <<event, now, onSuccess, data, form_id, formConfig,
                   validationErrors, invoked, response, value, escaped>>

SuccessAction_NoCatch ==
    /\ pc = "SuccessAction"
    /\ \E h \in onSuccess[formConfig.id] :
        /\ invoked' = Append(invoked, [form |-> formConfig.id,
                                       arg |-> sanitizedData, outcome |-> h])
        /\ IF h = "rejects" THEN Throw ELSE pc' = "Respond" /\ UNCHANGED response
    /\ UNCHANGED <<event, now, onSuccess, data, form_id, formConfig,
                   validationErrors, sanitizedData, value, escaped>>

\* await formConfig.onSuccess(sanitizedData) inside try/catch: only a
\* rejection reaches the catch; the value the hook resolves with is dropped
SuccessAction ==
    /\ pc = "SuccessAction"
    /\ \E h \in onSuccess[formConfig.id] :
        /\ invoked' = Append(invoked, [form |-> formConfig.id,
                                       arg |-> sanitizedData, outcome |-> h])
        /\ IF h = "rejects"
           THEN Return(errorResponse(
                    <<"Submission processing failed. Please try again.">>, 500))
           ELSE pc' = "Respond" /\ UNCHANGED response
    /\ UNCHANGED <<event, now, onSuccess, data, form_id, formConfig,
                   validationErrors, sanitizedData, value, escaped>>

Respond ==
    /\ pc = "Respond"
    /\ Return(successResponse(JSToString(form_id) \o <<" form submitted successfully">>))
    /\ UNCHANGED <<event, now, onSuccess, data, form_id, formConfig,
                   validationErrors, sanitizedData, invoked, value, escaped>>

Next ==
    \/ Receive
    \/ MethodCheck
    \/ BodyParse
    \/ FormResolve
    \/ AntiSpamHoneypot
    \/ AntiSpamTimestamp
    \/ FieldValidate
    \/ Sanitize
    \/ SuccessAction
    \/ Respond

\* The handler as deployed: every hook is the one of the source
Spec == Init /\ [][Next]_vars

\* The handler with hooks a deployment may configure in place of the logging
\* ones (the commented-out sendEmail, triggerWebhook, saveToCSV calls)
InitHooks ==
    /\ Idle
    /\ onSuccess = [f \in FormIdSet |-> HookBehaviours]
    /\ value = Undef
    /\ escaped = Undef

SpecHooks == InitHooks /\ [][Next]_vars

---------------------------------------------------------------------------
(* sanitizeInput on its own *)

\* The longest string sanitizeInput is applied to
MaxLen == 4

Alphabet == {"<", ">", "\"", "'", "&", "l", "t", ";"}

RECURSIVE Strings(_)
Strings(len) ==
    IF len = 0 THEN {<<>>}
    ELSE Strings(len - 1)
         \cup {Append(s, c) : s \in {x \in Strings(len - 1) : Len(x) = len - 1},
                              c \in Alphabet}

SanitizeInputs ==
    {Str(s) : s \in Strings(MaxLen)}
    \cup {Undef, Null, Bool(TRUE), Bool(FALSE), Num(0), Num(60), Arr(<<"<">>), Obj}

InitSanitize ==
    /\ Idle
    /\ onSuccess = [f \in FormIdSet |-> {"resolves"}]
    /\ value \in SanitizeInputs
    /\ escaped = Undef

ApplySanitizeInput ==
    /\ pc = "idle"
    /\ escaped' = sanitizeInput(value)
    /\ pc' = "sanitized"
    /\ UNCHANGED <<event, now, onSuccess, data, form_id, formConfig,
                   validationErrors, sanitizedData, invoked, response, value>>

SpecSanitize == InitSanitize /\ [][ApplySanitizeInput]_vars

---------------------------------------------------------------------------
(* Vocabulary of the properties *)

\* The submission the request carries
Raw == event.body.obj

Finished == pc \in {"returned", "threw"}

IsPostOfObject == event.httpMethod = "POST" /\ event.body.kind = "object"

\* sub occurs in text as a run of consecutive elements
Contains(text, sub) ==
    \E i \in 0..(Len(text) - Len(sub)) : SubSeq(text, i + 1, i + Len(sub)) = sub

IsSuccess(r) == r.statusCode = 200 /\ r.body.success = "true"

IsError(r, code) ==
    r.statusCode = code /\ r.body.success = "false" /\ r.body.error # <<>>

TimestampRejection == <<"Please wait a moment before submitting">>

\* The honeypot holds something other than blanks
HoneypotFilled(v) == Truthy(v) /\ ~(v.t = "string" /\ trim(v.s) = <<>>)

\* _honey is absent, falsy or a blank string: checkHoneypot lets it through
HoneypotClear(v) == ~Truthy(v) \/ (v.t = "string" /\ trim(v.s) = <<>>)

IsDigits(s) == s # <<>> /\ \A i \in 1..Len(s) : s[i] \in DigitSet

\* The elapsed time t - ts as a number, below the threshold: a number with
\* the fraction .5 is compared in halves, a string counts when it is a
\* decimal numeral
ElapsedBelowThreshold(ts, t) ==
    CASE ts.t = "number" ->
            2 * (t - ts.n) - (IF ts.half THEN 1 ELSE 0) < 2 * MinSubmissionMs
      [] ts.t = "string" -> IsDigits(ts.s) /\ t - TextToNat(ts.s) < MinSubmissionMs
      [] OTHER -> FALSE

RequiredSet(f) ==
    {FORM_CONFIGS[f].requiredFields[i] : i \in 1..Len(FORM_CONFIGS[f].requiredFields)}

\* An address of the shape local@domain.tld: no blank, one @ with text
\* before it, and after it a dot with text on both sides
WellFormedEmail(s) ==
    LET ats == {i \in 1..Len(s) : s[i] = "@"} IN
    /\ \A i \in 1..Len(s) : s[i] \notin {" ", "\t"}
    /\ Cardinality(ats) = 1
    /\ \E a \in ats :
        /\ a > 1
        /\ \E dot \in (a + 2)..(Len(s) - 1) : s[dot] = "."

\* A telephone number: 7 to 20 digits, spaces, hyphens, plus signs and
\* parentheses
WellFormedPhone(s) ==
    /\ Len(s) \in 7..20
    /\ \A i \in 1..Len(s) : s[i] \in DigitSet \cup {" ", "-", "+", "(", ")"}

\* A valid value of field k: a string with something other than blanks in
\* it, of the format the field asks for
IsValidValue(k, v) ==
    /\ v.t = "string"
    /\ \E i \in 1..Len(v.s) : v.s[i] \notin {" ", "\t"}
    /\ k = K_email => WellFormedEmail(v.s)
    /\ k = K_phone => WellFormedPhone(v.s)

\* The request is a POST of form_id f and exactly f's required fields, valid
ExactValidSubmission(f) ==
    /\ IsPostOfObject
    /\ Raw[K_form_id] = Str(f)
    /\ OwnKeys(Raw) = {K_form_id} \cup RequiredSet(f)
    /\ \A k \in RequiredSet(f) : IsValidValue(k, Raw[k])

---------------------------------------------------------------------------
(* C1 *)

\* C1: a POST of a configured form whose honeypot is filled is answered with
\* a 200 success envelope and onSuccess is never invoked, whatever the other
\* fields are.  (The claim is read in the code's favour: the request reaches
\* the AntiSpam stage, and a honeypot of blanks does not count as filled.)
C1_HoneypotSilentSuccess ==
    (/\ IsPostOfObject
     /\ Raw[K_form_id].t = "string"
     /\ Raw[K_form_id].s \in FormIdSet
     /\ HoneypotFilled(Raw[K_honey]))
    => /\ invoked = <<>>
       /\ Finished => (pc = "returned" /\ IsSuccess(response))

---------------------------------------------------------------------------
(* C2 *)

\* C2 as claimed: every parsed submission whose _timestamp lies less than
\* 2000 ms before the server's clock is answered with a 400 error and
\* onSuccess is never invoked; a submission without _timestamp is never
\* rejected by the timestamp check.  (Stated of the responses the handler
\* returns.)
C2_Original ==
    /\ (data.kind = "object" /\ ElapsedBelowThreshold(Raw[K_timestamp], now))
       => /\ invoked = <<>>
          /\ pc = "returned" => IsError(response, 400)
    /\ (data.kind = "object" /\ Raw[K_timestamp].t = "undefined" /\ pc = "returned")
       => response.body.error # TimestampRejection

\* C2 amended: every parsed submission that passes the honeypot check and
\* whose _timestamp is truthy with now - parseInt(_timestamp, 10) < 2000 is
\* answered with a 400 error and onSuccess is never invoked; a submission
\* without _timestamp is never rejected by the timestamp check.
C2_TimestampTooFast ==
    /\ (/\ data.kind = "object"
        /\ HoneypotClear(Raw[K_honey])
        /\ Truthy(Raw[K_timestamp])
        /\ ~parseInt(Raw[K_timestamp]).nan
        /\ now - parseInt(Raw[K_timestamp]).n < MinSubmissionMs)
       => /\ invoked = <<>>
          /\ Finished => (pc = "returned" /\ IsError(response, 400))
    /\ (data.kind = "object" /\ Raw[K_timestamp].t = "undefined" /\ pc = "returned")
       => response.body.error # TimestampRejection

\* A configured form, an empty honeypot and a string timestamp 1999 ms old:
\* the timestamp check rejected the submission
C2_Witness ==
    /\ pc = "returned"
    /\ formConfig.kind = "own"
    /\ HoneypotClear(Raw[K_honey])
    /\ Raw[K_timestamp] = Str(NatToText(now - MinSubmissionMs + 1))
    /\ response = errorResponse(TimestampRejection, 400)

---------------------------------------------------------------------------
(* C3 *)

---------------------------------------------------------------------------
(* C4 *)

\* C4: a POST with a parseable body whose form_id is missing or is a string
\* that is not exactly a configured identifier ends with a 400 error and no
\* onSuccess call, without going past the FormResolve stage; for an unknown
\* form_id the message lists every configured identifier.
C4_UnknownFormRejected ==
    (/\ data.kind \in {"object", "primitive"}
     /\ \/ Raw[K_form_id].t = "undefined"
        \/ Raw[K_form_id].t = "string" /\ Raw[K_form_id].s \notin FormIdSet)
    => /\ invoked = <<>>
       /\ pc \in {"FormResolve", "returned"}
       /\ pc = "returned"
          => /\ IsError(response, 400)
             /\ Raw[K_form_id].t = "string" /\ Raw[K_form_id].s # <<>>
                => \A f \in FormIdSet : Contains(response.body.error, f)

---------------------------------------------------------------------------
(* C5 *)

\* C5: every invocation, whatever the method and the body, ends by returning
\* one well-formed envelope with status 200, 400, 405 or 500, never with an
\* uncaught failure.
C5_AlwaysAnEnvelope ==
    /\ pc # "threw"
    /\ pc = "returned"
       => /\ response.statusCode \in {200, 400, 405, 500}
          /\ response.headers = CorsHeaders
          /\ response.statusCode = 200 => response.body.success \in {"true", "absent"}
          /\ response.statusCode # 200 => response.body.success = "false"

---------------------------------------------------------------------------
(* C6 *)

\* C6: the argument of every onSuccess call has no key starting with '_',
\* its form_id equals the identifier of the schema whose hook is called, its
\* submitted_at is the server's, and it has every non-control key of the raw
\* submission.
C6_SanitizedArgument ==
    \A i \in 1..Len(invoked) :
        LET arg == invoked[i].arg IN
        /\ \A k \in DOMAIN arg : ~startsWithUnderscore(k)
        /\ K_form_id \in DOMAIN arg
        /\ arg[K_form_id] = Str(invoked[i].form)
        /\ K_submitted_at \in DOMAIN arg
        /\ arg[K_submitted_at] = Str(toISOString(now))
        /\ \A k \in OwnKeys(Raw) : ~startsWithUnderscore(k) => k \in DOMAIN arg

---------------------------------------------------------------------------
(* C7 *)

\* Missing as C7 has it: absent (undefined or null) or a blank string
IsMissing_AbsentOrBlank(v) ==
    v.t \in {"undefined", "null"} \/ (v.t = "string" /\ trim(v.s) = <<>>)

\* The errors C7 describes: in declared order, "Missing required field: k"
\* exactly when k is absent (undefined or null) or a blank string, otherwise
\* "k: reason" when the validator rejects the value
RECURSIVE ClaimedErrors(_, _)
ClaimedErrors(d, fields) ==
    IF fields = <<>> THEN <<>>
    ELSE
        LET k == Head(fields)
            rest == ClaimedErrors(d, Tail(fields))
        IN  IF IsMissing_AbsentOrBlank(d[k])
            THEN <<(<<"Missing required field: ">> \o k)>> \o rest
            ELSE IF validateField(k, d[k]) # NoError
            THEN <<(k \o <<": ">> \o validateField(k, d[k]))>> \o rest
            ELSE rest

FieldsValidated ==
    pc \in {"Sanitize", "SuccessAction", "Respond"} \/ validationErrors # <<>>
    \/ (pc = "returned" /\ invoked # <<>>)

\* C7: validateRequiredFields returns, in declared order, one "Missing
\* required field" message for each field that is absent or a blank string
\* (0 and false are not missing) and one "<name>: <reason>" for each present
\* field its validator rejects, and the handler answers a non-empty result
\* with a 400 error joining the messages.
C7_ValidationErrors ==
    (formConfig.kind = "own" /\ FieldsValidated)
    => /\ validationErrors =
              ClaimedErrors(data.obj, FORM_CONFIGS[formConfig.id].requiredFields)
       /\ validationErrors # <<>>
          => (pc = "returned"
              /\ response = errorResponse(join(validationErrors, <<"; ">>), 400))

---------------------------------------------------------------------------
(* C8 *)

GenericFailure == <<"Submission processing failed. Please try again.">>

\* C8 as claimed: when the hook fails, by rejecting or by resolving with an
\* error outcome, the handler answers 500 with the fixed generic message and
\* never with a success envelope.
C8_Original ==
    \A i \in 1..Len(invoked) :
        (invoked[i].outcome \in {"rejects", "resolvesWithError"} /\ Finished)
        => (pc = "returned" /\ response = errorResponse(GenericFailure, 500))

\* C8 amended: when the hook rejects (throws), the handler answers 500 with
\* the fixed generic message and never with a success envelope; what a hook
\* resolves with is not looked at, so a hook that resolves is answered with
\* the success envelope.
C8_ActionFailure ==
    \A i \in 1..Len(invoked) :
        /\ invoked[i].outcome = "rejects"
           => (pc = "returned" /\ response = errorResponse(GenericFailure, 500))
        /\ (invoked[i].outcome # "rejects" /\ Finished)
           => (pc = "returned" /\ IsSuccess(response))

\* A hook was called and rejected
C8_Witness ==
    /\ pc = "returned"
    /\ Len(invoked) = 1
    /\ invoked[1].outcome = "rejects"
    /\ response.statusCode = 500

---------------------------------------------------------------------------
(* C9 *)

EscapedCharacters == {"<", ">", "\"", "'"}

\* C9: sanitizeInput is idempotent, its output holds none of < > " ', and a
\* value that is not a string comes back unchanged.
C9_SanitizeIdempotent ==
    pc = "sanitized"
    => /\ sanitizeInput(escaped) = escaped
       /\ value.t = "string"
          => (escaped.t = "string"
              /\ \A i \in 1..Len(escaped.s) : escaped.s[i] \notin EscapedCharacters)
       /\ value.t # "string" => escaped = value

\* sanitizeInput has escaped "<&lt;" (a raw and an already escaped <)
C9_Witness ==
    /\ pc = "sanitized"
    /\ value = Str(<<"<", "&", "l", "t">>)
    /\ escaped = Str(<<"&", "l", "t", ";", "&", "l", "t">>)

---------------------------------------------------------------------------
(* C10 *)

\* The stage whose terminating condition is the first to hold for the
\* request, by the order MethodCheck, BodyParse, FormResolve, AntiSpam
\* (honeypot, then timestamp), FieldValidate; "none" when every one passes.
\* A form identifier is known when it names one of the configured forms.
KnownForm == JSToString(Raw[K_form_id]) \in FormIdSet

FirstFailingStage ==
    IF event.httpMethod # "POST" THEN "MethodCheck"
    ELSE IF event.body.kind = "malformed" THEN "BodyParse"
    ELSE IF ~Truthy(Raw[K_form_id]) \/ ~KnownForm THEN "FormResolve"
    ELSE IF HoneypotFilled(Raw[K_honey]) THEN "AntiSpamHoneypot"
    ELSE IF ~checkTimestamp(Raw, now) THEN "AntiSpamTimestamp"
    ELSE IF validateRequiredFields(Raw,
                FORM_CONFIGS[JSToString(Raw[K_form_id])].requiredFields) # <<>>
    THEN "FieldValidate"
    ELSE "none"

\* The stage a response comes from, read off the response itself
StageOf(r) ==
    IF r.body.success = "absent" \/ r.statusCode = 405 THEN "MethodCheck"
    ELSE IF r.body.error = <<"Invalid JSON in request body">> THEN "BodyParse"
    ELSE IF r.body.error = <<"Missing form_id in request body">>
            \/ (r.body.error # <<>> /\ Head(r.body.error) = "Unknown form_id: ")
    THEN "FormResolve"
    ELSE IF r.body.message = <<"Form submitted successfully">> THEN "AntiSpamHoneypot"
    ELSE IF r.body.error = TimestampRejection THEN "AntiSpamTimestamp"
    ELSE IF r.statusCode = 400 THEN "FieldValidate"
    ELSE "none"

\* C10: the response is that of the earliest stage whose terminating
\* condition holds (OPTIONS an empty 200 and any other non-POST method a 405,
\* whatever the body), and onSuccess is invoked only when every earlier stage
\* has passed.
C10_EarliestStageAnswers ==
    /\ pc = "returned" => StageOf(response) = FirstFailingStage
    /\ pc = "returned" /\ event.httpMethod = "OPTIONS"
       => response = jsonResponse(200, EmptyBody)
    /\ invoked # <<>> => FirstFailingStage = "none"

=============================================================================
